---- MODULE Spec2Model ----
(***************************************************************************)
(* Tasklet subsystem of Argobots (src/task.c): create, free, cancel,       *)
(* retain, release and get_state called by concurrent holders, together    *)
(* with the execution streams that pop, run and terminate the tasks.       *)
(*                                                                         *)
(* A task object lives at an address 1..MaxTasks; an address is handed out *)
(* once (ABTU_malloc never returns a block that was freed before).  The    *)
(* fields of a freed object keep their last contents; an access to them is *)
(* recorded in fault, and where the value read decides a branch of the     *)
(* caller (ABT_task_free) the branch is a nondeterministic choice.         *)
(*                                                                         *)
(* A uint32 word is held as the integer with the same value; the only      *)
(* subtraction of the file, refcount - 1, is written U32Dec, whose result  *)
(* at 0 is U32_WRAPPED, standing for 0xFFFFFFFF.                           *)
(*                                                                         *)
(* What the callers may pass and what the collaborators may answer is an   *)
(* environment E, a parameter of the actions; the specifications differ in *)
(* the environment only.                                                   *)
(***************************************************************************)
EXTENDS Integers, Sequences, FiniteSets, TLC

\* ---------------------------------------------------------------- bounds
\* addresses ABTU_malloc can hand out
MaxTasks == 2
\* tasks created where the callers use every operation
MaxCreates == 1
\* references one holder takes on one task
MaxRef == 1

\* ------------------------------------------------------------- constants
ABT_TASK_NULL == 0
ABT_STREAM_NULL == "ABT_STREAM_NULL"
U32_WRAPPED == -1

Tasks == 1..MaxTasks
Streams == {"s1", "s2"}
PrimaryStream == "s1"
Holders == {"h1", "h2"}

ABT_SUCCESS == "ABT_SUCCESS"
ABT_ERR_MEM == "ABT_ERR_MEM"
ABT_ERR_TASK == "ABT_ERR_TASK"
ABT_ERR_INV_TASK == "ABT_ERR_INV_TASK"
ABT_ERR_OTHER == "ABT_ERR_OTHER"

CREATED == "CREATED"
DELAYED == "DELAYED"
RUNNING == "RUNNING"
COMPLETED == "COMPLETED"
TERMINATED == "TERMINATED"
TaskStates == {CREATED, DELAYED, RUNNING, COMPLETED, TERMINATED}

ABTI_TASK_REQ_CANCEL == "CANCEL"
GENERIC == "generic"

\* the names callers pass to ABT_task_set_name
Names == {"worker-1", "worker-2"}
\* what p_name holds when it is not a complete name: nothing, the address of
\* a buffer that was freed, the address of a buffer nothing was copied to
NULL == "NULL"
DANGLING == "dangling"
UNINITIALIZED == "uninitialized"
\* the holder of a mutex nobody has locked
UNLOCKED == "unlocked"

\* ---------------------------------------------------------- environments
\* outcomes: how far ABT_task_create gets; start: whether starting a stream
\* succeeds; in_task: whether the caller is a task (ABTI_local_get_thread()
\* == NULL); null: the null handle, when callers pass it; creates: how many
\* tasks are created; own_release, own_free: callers release, free only a
\* task they hold a reference to; name_alloc: whether the ABTU_malloc of
\* ABT_task_set_name succeeds.
WellFormed == [outcomes |-> {"ok"}, start |-> {TRUE}, in_task |-> {FALSE},
               null |-> {}, creates |-> MaxCreates,
               own_release |-> TRUE, own_free |-> FALSE, name_alloc |-> {TRUE}]
Owned == [WellFormed EXCEPT !.own_free = TRUE]
AnyRelease == [WellFormed EXCEPT !.own_release = FALSE]
\* the caller is a task; the caller is a task or a thread
InTask == [WellFormed EXCEPT !.in_task = {TRUE}]
AnyContext == [WellFormed EXCEPT !.in_task = BOOLEAN]
\* every step of create that can fail may fail
Failing == [WellFormed EXCEPT !.outcomes = {"ok", "malloc", "mutex", "global_add"},
                              !.start = BOOLEAN]
\* the allocation of a name may fail
Naming == [WellFormed EXCEPT !.name_alloc = BOOLEAN]
\* as many tasks are created as there are addresses
Creators == [WellFormed EXCEPT !.creates = MaxTasks]

VARIABLES
    tasks,      \* address -> ABTI_task object (and whether it is allocated)
    task_id,    \* the static counter of ABTI_task_get_new_id
    gpool,      \* the global pool of unassigned tasks
    sched,      \* stream -> its scheduler's pool
    deads,      \* stream -> its pool of terminated, still referenced units
    sstate,     \* stream -> CREATED | RUNNING
    cur,        \* stream -> the task it is executing, or ABT_TASK_NULL
    pc,         \* holder -> where it stands in its current call
    loc,        \* holder -> the locals of its current call
    ret,        \* holder -> what its last call returned
    newtask,    \* holder -> what create last left in its newtask variable
    hnd,        \* holder -> the non-null task handles it has a copy of
    held,       \* holder -> task -> references taken minus release calls returned
    fault       \* undefined behaviour that has happened so far

vars == <<tasks, task_id, gpool, sched, deads, sstate, cur,
          pc, loc, ret, newtask, hnd, held, fault>>

pools == <<gpool, sched, deads>>
streams == <<sstate, cur>>

\* ------------------------------------------------------------ primitives

\* ABTD_atomic_fetch_add_uint32(&refcount, 1): the stored value
FetchAddUint32(word, n) == word + n

\* a fetch-add whose store is lost
FetchAddUint64Lost(word, n) == word
\* ABTD_atomic_fetch_add_uint64(&task_id, 1): the stored value.  The counter
\* is below MaxTasks, far from 2^64, where it would wrap.
FetchAddUint64(word, n) == word + n

\* refcount - 1 on a uint32
U32Dec(x) == IF x = 0 THEN U32_WRAPPED ELSE x - 1

\* a store that does not compare
CasStoreBlind(word, old, new) == new
\* ABTD_atomic_cas_uint32(ptr, old, new): the value stored afterwards
CasStore(word, old, new) == IF word = old THEN new ELSE word
\* ... and the value it returns
CasReturn(word, old, new) == word

\* an exclusive or in place of the or
FetchXorUint32(word, bits) == (word \cup bits) \ (word \cap bits)
\* ABTD_atomic_fetch_or_uint32(&request, bits): the value stored afterwards
FetchOrUint32(word, bits) == word \cup bits

\* a caller that is always taken for a thread
LocalThreadOfAnyCaller(in_task) == "thread"
\* ABTI_local_get_thread(): the calling thread, NULL when the caller is a task
ABTI_local_get_thread(in_task) == IF in_task THEN "NULL" ELSE "thread"

\* a push that links the unit twice
PoolPushTwice(pool, t) == Append(Append(pool, t), t)
\* ABTI_global_add_task(p_task), ABTI_scheduler_push(p_sched, unit)
PoolPush(pool, t) == Append(pool, t)

\* ABTI_pool_remove(pool, unit)
PoolRemove(pool, t) == SelectSeq(pool, LAMBDA u : u # t)

InPool(pool, t) == \E i \in 1..Len(pool) : pool[i] = t

\* ABTI_pool_get_size(p_streams->active), ...(p_streams->created)
NumActive == Cardinality({s \in Streams : sstate[s] = "RUNNING"})
NumCreated == Cardinality({s \in Streams : sstate[s] = "CREATED"})

NoTask == [alloc |-> "none", id |-> 0, state |-> CREATED, refcount |-> 0,
           request |-> {}, p_stream |-> ABT_STREAM_NULL, unit |-> "none",
           unit_freed_by |-> "none", p_name |-> NULL, mutex |-> "none",
           mutex_owner |-> UNLOCKED]

NoLoc == [task |-> ABT_TASK_NULL, stream |-> ABT_STREAM_NULL,
          want |-> FALSE, refcount |-> 0, name |-> NULL, prev |-> NULL]

Live(t) == tasks[t].alloc = "live"
Freed(t) == tasks[t].alloc = "freed"

\* the next address ABTU_malloc hands out
NextAddr == Cardinality({t \in Tasks : tasks[t].alloc # "none"}) + 1

\* the handles a holder may pass to a call
Handles(h, E) == hnd[h] \cup E.null

Return(h, code) ==
    /\ pc' = [pc EXCEPT ![h] = "idle"]
    /\ loc' = [loc EXCEPT ![h] = NoLoc]
    /\ ret' = [ret EXCEPT ![h] = code]

Init ==
    /\ tasks = [t \in Tasks |-> NoTask]
    /\ task_id = 0
    /\ gpool = <<>>
    /\ sched = [s \in Streams |-> <<>>]
    /\ deads = [s \in Streams |-> <<>>]
    /\ sstate = [s \in Streams |-> IF s = PrimaryStream THEN "RUNNING" ELSE "CREATED"]
    /\ cur = [s \in Streams |-> ABT_TASK_NULL]
    /\ pc = [h \in Holders |-> "idle"]
    /\ loc = [h \in Holders |-> NoLoc]
    /\ ret = [h \in Holders |-> ABT_SUCCESS]
    /\ newtask = [h \in Holders |-> <<>>]
    /\ hnd = [h \in Holders |-> {}]
    /\ held = [h \in Holders |-> [t \in Tasks |-> 0]]
    /\ fault = {}

\* ------------------------------------------------------- ABT_task_create

\* lines 475-479: the value returned, the counter before the addition
ABTI_task_get_new_id == task_id

\* line 86 left out
InitialStateUnbound(stream) == CREATED
\* lines 52 and 86: the state the object has when it is pushed to a pool
InitialState(stream) == IF stream = ABT_STREAM_NULL THEN CREATED ELSE DELAYED

\* a reference counted whether or not a handle is asked for
InitialRefcountOne(want) == 1
\* line 53
InitialRefcount(want) == IF want THEN 1 ELSE 0

\* lines 42-72 and 82-95: allocate, initialise, create the unit, push it
CreateAlloc(h, E) ==
    /\ pc[h] = "idle"
    /\ NextAddr <= MaxTasks
    /\ NextAddr <= E.creates
    /\ \E stream \in Streams \cup {ABT_STREAM_NULL}, want \in BOOLEAN,
          outcome \in E.outcomes :
        LET t == NextAddr
            obj == [NoTask EXCEPT !.alloc = "live", !.id = ABTI_task_get_new_id,
                                  !.state = CREATED,
                                  !.refcount = InitialRefcount(want)]
        IN
        IF outcome = "malloc" THEN
            \* lines 43-48
            /\ newtask' = [newtask EXCEPT ![h] = IF want THEN <<ABT_TASK_NULL>> ELSE @]
            /\ Return(h, ABT_ERR_MEM)
            /\ UNCHANGED <<tasks, task_id, pools, streams, hnd, held, fault>>
        ELSE IF outcome = "mutex" THEN
            \* lines 59-60: the object stays allocated, nothing else is done
            /\ tasks' = [tasks EXCEPT ![t] = obj]
            /\ task_id' = FetchAddUint64(task_id, 1)
            /\ held' = [held EXCEPT ![h][t] = InitialRefcount(want)]
            /\ Return(h, ABT_ERR_OTHER)
            /\ UNCHANGED <<pools, streams, newtask, hnd, fault>>
        ELSE IF stream = ABT_STREAM_NULL THEN
            /\ task_id' = FetchAddUint64(task_id, 1)
            /\ held' = [held EXCEPT ![h][t] = InitialRefcount(want)]
            /\ tasks' = [tasks EXCEPT ![t] =
                           [obj EXCEPT !.mutex = "live", !.unit = GENERIC,
                                       !.state = InitialState(stream),
                                       !.p_stream = ABT_STREAM_NULL]]
            /\ IF outcome = "global_add" THEN
                   \* lines 71-72 failing
                   /\ Return(h, ABT_ERR_OTHER)
                   /\ UNCHANGED <<pools, streams, newtask, hnd, fault>>
               ELSE
                   /\ gpool' = PoolPush(gpool, t)
                   /\ pc' = [pc EXCEPT ![h] = "create_start"]
                   /\ loc' = [loc EXCEPT ![h] =
                                [NoLoc EXCEPT !.task = t, !.stream = stream,
                                              !.want = want]]
                   /\ UNCHANGED <<sched, deads, streams, ret, newtask, hnd, fault>>
        ELSE
            /\ outcome = "ok"
            /\ task_id' = FetchAddUint64(task_id, 1)
            /\ held' = [held EXCEPT ![h][t] = InitialRefcount(want)]
            /\ tasks' = [tasks EXCEPT ![t] =
                           [obj EXCEPT !.mutex = "live", !.unit = stream,
                                       !.state = InitialState(stream),
                                       !.p_stream = stream]]
            /\ sched' = [sched EXCEPT ![stream] = PoolPush(@, t)]
            /\ pc' = [pc EXCEPT ![h] = "create_start"]
            /\ loc' = [loc EXCEPT ![h] =
                         [NoLoc EXCEPT !.task = t, !.stream = stream,
                                       !.want = want]]
            /\ UNCHANGED <<gpool, deads, streams, ret, newtask, hnd, fault>>

\* a create that starts no stream
NeedsStartNever(stream) == FALSE
\* lines 74-80 and 97-101: whether a stream is to be started
NeedsStart(stream) ==
    IF stream = ABT_STREAM_NULL
    THEN NumActive <= 1 /\ NumCreated > 0
    ELSE sstate[stream] = "CREATED"

\* lines 74-80 and 97-101: ABTI_stream_start_any, ABTI_stream_start
CreateStart(h, E) ==
    /\ pc[h] = "create_start"
    /\ IF ~NeedsStart(loc[h].stream) THEN
           /\ pc' = [pc EXCEPT ![h] = "create_ret"]
           /\ UNCHANGED <<sstate, loc, ret>>
       ELSE
           \E ok \in E.start :
              IF ok THEN
                  /\ \E s \in Streams :
                        /\ sstate[s] = "CREATED"
                        /\ loc[h].stream \in {ABT_STREAM_NULL, s}
                        /\ sstate' = [sstate EXCEPT ![s] = "RUNNING"]
                  /\ pc' = [pc EXCEPT ![h] = "create_ret"]
                  /\ UNCHANGED <<loc, ret>>
              ELSE
                  \* ABTI_CHECK_ERROR at 79 or 100
                  /\ Return(h, ABT_ERR_OTHER)
                  /\ UNCHANGED sstate
    /\ UNCHANGED <<tasks, task_id, pools, cur, newtask, hnd, held, fault>>

\* lines 104-108: *newtask = h_newtask; every holder may copy the handle
CreateReturn(h) ==
    /\ pc[h] = "create_ret"
    /\ newtask' = [newtask EXCEPT ![h] = IF loc[h].want THEN <<loc[h].task>> ELSE @]
    /\ hnd' = IF loc[h].want
              THEN [k \in Holders |-> hnd[k] \cup {loc[h].task}]
              ELSE hnd
    /\ Return(h, ABT_SUCCESS)
    /\ UNCHANGED <<tasks, task_id, pools, streams, held, fault>>

\* --------------------------------------------------------- ABTI_task_free

\* lines 418-442: the object after the call.  ABT_mutex_free of the mutex
\* that create made is taken to succeed.
ABTI_task_free(o) ==
    [o EXCEPT !.alloc = "freed",
              !.unit_freed_by = IF o.refcount > 0 THEN GENERIC ELSE o.p_stream,
              !.p_name = NULL,
              !.mutex = "freed"]

\* a second ABTI_task_free of the same object, an access to a freed object
FaultsOfFree(t) == IF Freed(t) THEN {"double_free"} ELSE {}
FaultsOfAccess(t) == IF Freed(t) THEN {"use_after_free"} ELSE {}

\* ------------------------------------------------- the execution streams

\* a stream pops the head of its scheduler's pool and starts the task
StreamPopSched(s) ==
    /\ sstate[s] = "RUNNING"
    /\ cur[s] = ABT_TASK_NULL
    /\ sched[s] # <<>>
    /\ LET t == Head(sched[s]) IN
        /\ sched' = [sched EXCEPT ![s] = Tail(@)]
        /\ tasks' = [tasks EXCEPT ![t].state = RUNNING]
        /\ cur' = [cur EXCEPT ![s] = t]
    /\ UNCHANGED <<task_id, gpool, deads, sstate, pc, loc, ret, newtask,
                   hnd, held, fault>>

\* a stream claims the head of the global pool and starts the task
StreamPopGlobal(s) ==
    /\ sstate[s] = "RUNNING"
    /\ cur[s] = ABT_TASK_NULL
    /\ gpool # <<>>
    /\ LET t == Head(gpool) IN
        /\ gpool' = Tail(gpool)
        /\ tasks' = [tasks EXCEPT ![t].state = RUNNING, ![t].p_stream = s]
        /\ cur' = [cur EXCEPT ![s] = t]
    /\ UNCHANGED <<task_id, sched, deads, sstate, pc, loc, ret, newtask,
                   hnd, held, fault>>

\* the task function returns, or the cancel request is observed
StreamRun(s) ==
    /\ cur[s] # ABT_TASK_NULL
    /\ tasks[cur[s]].state = RUNNING
    /\ tasks' = [tasks EXCEPT ![cur[s]].state = COMPLETED]
    /\ UNCHANGED <<task_id, pools, streams, pc, loc, ret, newtask, hnd,
                   held, fault>>

\* the completion path: free the task when nothing references it, else
\* park its unit in the stream's deads pool (under the stream's mutex)
StreamTerminate(s) ==
    /\ cur[s] # ABT_TASK_NULL
    /\ tasks[cur[s]].state = COMPLETED
    /\ LET t == cur[s] IN
        IF tasks[t].refcount = 0 THEN
            /\ tasks' = [tasks EXCEPT ![t] =
                           ABTI_task_free([tasks[t] EXCEPT !.state = TERMINATED])]
            /\ UNCHANGED deads
        ELSE
            /\ tasks' = [tasks EXCEPT ![t].state = TERMINATED]
            /\ deads' = [deads EXCEPT ![s] = Append(@, t)]
    /\ cur' = [cur EXCEPT ![s] = ABT_TASK_NULL]
    /\ UNCHANGED <<task_id, gpool, sched, sstate, pc, loc, ret, newtask,
                   hnd, held, fault>>

\* --------------------------------------------------------- ABT_task_free

\* lines 132-139
FreeCall(h, E) ==
    /\ pc[h] = "idle"
    /\ \E t \in hnd[h], in_task \in E.in_task :
        /\ E.own_free => held[h][t] > 0
        /\ IF ABTI_local_get_thread(in_task) = "NULL" THEN
               Return(h, ABT_ERR_TASK)
           ELSE
               /\ pc' = [pc EXCEPT ![h] = "free_wait"]
               /\ loc' = [loc EXCEPT ![h] = [NoLoc EXCEPT !.task = t]]
               /\ UNCHANGED ret
    /\ UNCHANGED <<tasks, task_id, pools, streams, newtask, hnd, held, fault>>

\* a wait for a state the task has left when it is popped
WaitIsOverAtCreated(st) == st = CREATED
\* no wait at all
WaitIsOverAtOnce(st) == TRUE
\* line 142: the condition that ends the wait
WaitIsOver(st) == st = TERMINATED

\* lines 141-153: the test of the loop condition that ends the loop, then the
\* test of refcount and the removal from the deads pool under the stream's mutex
FreeWait(h) ==
    /\ pc[h] = "free_wait"
    /\ LET t == loc[h].task
           p_stream == tasks[t].p_stream
       IN
        /\ Live(t) => WaitIsOver(tasks[t].state)
        /\ \E referenced \in BOOLEAN :
            /\ Live(t) => (referenced <=> tasks[t].refcount > 0)
            /\ IF referenced /\ p_stream # ABT_STREAM_NULL
               THEN deads' = [deads EXCEPT ![p_stream] = PoolRemove(@, t)]
               ELSE UNCHANGED deads
            /\ fault' = fault \cup FaultsOfAccess(t)
                          \cup (IF referenced /\ p_stream = ABT_STREAM_NULL
                                THEN {"null_deref"} ELSE {})
    /\ pc' = [pc EXCEPT ![h] = "free_dealloc"]
    /\ UNCHANGED <<tasks, task_id, gpool, sched, streams, loc, ret, newtask,
                   hnd, held>>

\* lines 155-163
FreeDealloc(h) ==
    /\ pc[h] = "free_dealloc"
    /\ LET t == loc[h].task IN
        /\ tasks' = [tasks EXCEPT ![t] = IF Live(t) THEN ABTI_task_free(@) ELSE @]
        /\ fault' = fault \cup FaultsOfFree(t)
        /\ hnd' = [hnd EXCEPT ![h] = @ \ {t}]
    /\ Return(h, ABT_SUCCESS)
    /\ UNCHANGED <<task_id, pools, streams, newtask, held>>

\* ------------------------------------------------------- ABT_task_cancel

\* a cancel that takes the task out of the lifecycle at once
CancelEffectTerminating(o) ==
    [o EXCEPT !.request = FetchOrUint32(@, {ABTI_TASK_REQ_CANCEL}),
              !.state = IF @ \in {CREATED, DELAYED} THEN TERMINATED ELSE @]
\* a cancel that also ends the task
CancelEffectCompleting(o) ==
    [o EXCEPT !.request = FetchOrUint32(@, {ABTI_TASK_REQ_CANCEL}),
              !.state = COMPLETED]
\* line 197: the object after the call
CancelEffect(o) ==
    [o EXCEPT !.request = FetchOrUint32(@, {ABTI_TASK_REQ_CANCEL})]

\* lines 178-204
ABT_task_cancel(h, E) ==
    /\ pc[h] = "idle"
    /\ \E t \in Handles(h, E), in_task \in E.in_task :
        IF ABTI_local_get_thread(in_task) = "NULL" THEN
            /\ Return(h, ABT_ERR_TASK)
            /\ UNCHANGED <<tasks, fault>>
        ELSE IF t = ABT_TASK_NULL THEN
            /\ Return(h, ABT_ERR_INV_TASK)
            /\ UNCHANGED <<tasks, fault>>
        ELSE
            /\ tasks' = [tasks EXCEPT ![t] = IF Live(t) THEN CancelEffect(@) ELSE @]
            /\ fault' = fault \cup FaultsOfAccess(t)
            /\ Return(h, ABT_SUCCESS)
    /\ UNCHANGED <<task_id, pools, streams, newtask, hnd, held>>

\* ------------------------------------------------------- ABT_task_retain

\* lines 217-235
ABT_task_retain(h, E) ==
    /\ pc[h] = "idle"
    /\ \E t \in Handles(h, E) :
        IF t = ABT_TASK_NULL THEN
            /\ Return(h, ABT_ERR_INV_TASK)
            /\ UNCHANGED <<tasks, held, fault>>
        ELSE
            /\ held[h][t] < MaxRef
            /\ tasks' = [tasks EXCEPT ![t].refcount =
                           IF Live(t) THEN FetchAddUint32(@, 1) ELSE @]
            /\ held' = [held EXCEPT ![h][t] = IF Live(t) THEN @ + 1 ELSE @]
            /\ fault' = fault \cup FaultsOfAccess(t)
            /\ Return(h, ABT_SUCCESS)
    /\ UNCHANGED <<task_id, pools, streams, newtask, hnd>>

\* ------------------------------------------------------ ABT_task_release

\* a decrement that does not test for 0
MayDecrementAlways(refcount) == TRUE
\* line 260: the loop condition
MayDecrement(refcount) == refcount > 0

\* the return of a release call: the caller has dropped a reference
ReleaseReturn(h, t) ==
    /\ held' = [held EXCEPT ![h][t] = IF Live(t) THEN @ - 1 ELSE @]
    /\ Return(h, ABT_SUCCESS)

\* line 260: refcount = p_task->refcount, and the test
ReadRefcount(h, t) ==
    /\ fault' = fault \cup FaultsOfAccess(t)
    /\ IF MayDecrement(tasks[t].refcount) THEN
           /\ pc' = [pc EXCEPT ![h] = "rel_cas"]
           /\ loc' = [loc EXCEPT ![h] =
                        [NoLoc EXCEPT !.task = t, !.refcount = tasks[t].refcount]]
           /\ UNCHANGED <<ret, held>>
       ELSE
           ReleaseReturn(h, t)

\* lines 248-260: the call, up to the first test of the loop condition
ReleaseCall(h, E) ==
    /\ pc[h] = "idle"
    /\ \E t \in Handles(h, E) :
        IF t = ABT_TASK_NULL THEN
            /\ Return(h, ABT_ERR_INV_TASK)
            /\ UNCHANGED <<fault, held>>
        ELSE
            /\ IF E.own_release THEN held[h][t] > 0 ELSE held[h][t] > -MaxRef
            /\ ReadRefcount(h, t)
    /\ UNCHANGED <<tasks, task_id, pools, streams, newtask, hnd>>

\* line 260 again, after a compare-and-swap that failed
ReleaseRead(h) ==
    /\ pc[h] = "rel_read"
    /\ ReadRefcount(h, loc[h].task)
    /\ UNCHANGED <<tasks, task_id, pools, streams, newtask, hnd>>

\* a release that deletes a terminated task when it drops the last reference
ReleaseStoreFreeing(o, old) ==
    IF CasStore(o.refcount, old, U32Dec(old)) = 0 /\ o.state = TERMINATED
    THEN ABTI_task_free([o EXCEPT !.refcount = 0])
    ELSE [o EXCEPT !.refcount = CasStore(@, old, U32Dec(old))]
\* lines 261-262: the object after the compare-and-swap
ReleaseStore(o, old) ==
    [o EXCEPT !.refcount = CasStore(@, old, U32Dec(old))]

\* lines 261-264: the compare-and-swap and the test of its result
ReleaseCas(h) ==
    /\ pc[h] = "rel_cas"
    /\ LET t == loc[h].task
           old == loc[h].refcount
           swapped == CasReturn(tasks[t].refcount, old, U32Dec(old)) = old
       IN
        /\ fault' = fault \cup FaultsOfAccess(t)
        /\ tasks' = [tasks EXCEPT ![t] = IF Live(t) THEN ReleaseStore(@, old) ELSE @]
        /\ IF swapped THEN
               ReleaseReturn(h, t)
           ELSE
               /\ pc' = [pc EXCEPT ![h] = "rel_read"]
               /\ UNCHANGED <<loc, ret, held>>
    /\ UNCHANGED <<task_id, pools, streams, newtask, hnd>>

\* ---------------------------------------------------- ABT_task_get_state

\* line 312: the value written to *state
GetStateResult(t) == tasks[t].state

\* lines 301-320
ABT_task_get_state(h, E) ==
    /\ pc[h] = "idle"
    /\ \E t \in Handles(h, E) :
        IF t = ABT_TASK_NULL THEN
            /\ Return(h, ABT_ERR_INV_TASK)
            /\ UNCHANGED fault
        ELSE
            /\ GetStateResult(t) \in TaskStates
            /\ Return(h, ABT_SUCCESS)
            /\ fault' = fault \cup FaultsOfAccess(t)
    /\ UNCHANGED <<tasks, task_id, pools, streams, newtask, hnd, held>>

\* ----------------------------------------- ABT_task_set_name, get_name

\* lines 331-341: the call, up to the lock of the task's mutex; prev keeps
\* the name the task had when the call took the lock
SetNameLock(h, E) ==
    /\ pc[h] = "idle"
    /\ \E t \in Handles(h, E), name \in Names :
        IF t = ABT_TASK_NULL THEN
            /\ Return(h, ABT_ERR_INV_TASK)
            /\ UNCHANGED <<tasks, fault>>
        ELSE
            /\ tasks[t].mutex_owner = UNLOCKED
            /\ tasks' = [tasks EXCEPT ![t].mutex_owner = IF Live(t) THEN h ELSE @]
            /\ fault' = fault \cup FaultsOfAccess(t)
            /\ pc' = [pc EXCEPT ![h] = "name_free"]
            /\ loc' = [loc EXCEPT ![h] =
                         [NoLoc EXCEPT !.task = t, !.name = name,
                                       !.prev = tasks[t].p_name]]
            /\ UNCHANGED ret
    /\ UNCHANGED <<task_id, pools, streams, newtask, hnd, held>>

\* line 342: p_name after the old buffer is freed
NameAfterFree(p_name) == IF p_name # NULL THEN DANGLING ELSE p_name

\* line 342
SetNameFree(h) ==
    /\ pc[h] = "name_free"
    /\ LET t == loc[h].task IN
        /\ tasks' = [tasks EXCEPT ![t].p_name =
                       IF Live(t) THEN NameAfterFree(@) ELSE @]
        /\ fault' = fault \cup FaultsOfAccess(t)
    /\ pc' = [pc EXCEPT ![h] = "name_alloc"]
    /\ UNCHANGED <<task_id, pools, streams, loc, ret, newtask, hnd, held>>

\* lines 343-348: the allocation, and the return when it fails
SetNameAlloc(h, E) ==
    /\ pc[h] = "name_alloc"
    /\ \E ok \in E.name_alloc :
        LET t == loc[h].task IN
        /\ fault' = fault \cup FaultsOfAccess(t)
        /\ IF ok THEN
               /\ tasks' = [tasks EXCEPT ![t].p_name =
                              IF Live(t) THEN UNINITIALIZED ELSE @]
               /\ pc' = [pc EXCEPT ![h] = "name_copy"]
               /\ UNCHANGED <<loc, ret>>
           ELSE
               /\ tasks' = [tasks EXCEPT ![t] =
                              IF Live(t)
                              THEN [@ EXCEPT !.p_name = NULL,
                                             !.mutex_owner = UNLOCKED]
                              ELSE @]
               /\ Return(h, ABT_ERR_MEM)
    /\ UNCHANGED <<task_id, pools, streams, newtask, hnd, held>>

\* lines 349-350: the copy and the unlock
SetNameCopy(h) ==
    /\ pc[h] = "name_copy"
    /\ LET t == loc[h].task IN
        /\ tasks' = [tasks EXCEPT ![t] =
                       IF Live(t)
                       THEN [@ EXCEPT !.p_name = loc[h].name,
                                      !.mutex_owner = UNLOCKED]
                       ELSE @]
        /\ fault' = fault \cup FaultsOfAccess(t)
    /\ Return(h, ABT_SUCCESS)
    /\ UNCHANGED <<task_id, pools, streams, newtask, hnd, held>>

\* what strlen and ABTU_strcpy of lines 381-384 do with p_name
FaultsOfName(p_name) ==
    IF p_name = NULL THEN {"null_deref"}
    ELSE IF p_name = DANGLING THEN {"use_after_free"}
    ELSE IF p_name = UNINITIALIZED THEN {"uninitialized_read"}
    ELSE {}

\* lines 372-392: the mutex is not taken
ABT_task_get_name(h, E) ==
    /\ pc[h] = "idle"
    /\ \E t \in Handles(h, E) :
        IF t = ABT_TASK_NULL THEN
            /\ Return(h, ABT_ERR_INV_TASK)
            /\ UNCHANGED fault
        ELSE
            /\ fault' = fault \cup FaultsOfAccess(t)
                          \cup (IF Live(t) THEN FaultsOfName(tasks[t].p_name) ELSE {})
            /\ Return(h, ABT_SUCCESS)
    /\ UNCHANGED <<tasks, task_id, pools, streams, newtask, hnd, held>>

\* --------------------------------------------------------- specifications

HolderStep(h, E) ==
    \/ CreateAlloc(h, E)
    \/ CreateStart(h, E)
    \/ CreateReturn(h)
    \/ FreeCall(h, E)
    \/ FreeWait(h)
    \/ FreeDealloc(h)
    \/ ABT_task_cancel(h, E)
    \/ ABT_task_retain(h, E)
    \/ ReleaseCall(h, E)
    \/ ReleaseRead(h)
    \/ ReleaseCas(h)
    \/ ABT_task_get_state(h, E)

StreamStep(s) ==
    \/ StreamPopSched(s)
    \/ StreamPopGlobal(s)
    \/ StreamRun(s)
    \/ StreamTerminate(s)

\* every call with a handle the caller has, from a thread, collaborators succeed
Next ==
    \/ \E h \in Holders : HolderStep(h, WellFormed)
    \/ \E s \in Streams : StreamStep(s)

Spec == Init /\ [][Next]_vars

\* callers release and free only a task they hold a reference to
NextOwned ==
    \/ \E h \in Holders : HolderStep(h, Owned)
    \/ \E s \in Streams : StreamStep(s)

SpecOwned == Init /\ [][NextOwned]_vars

\* create and release only; a release may find no reference left
NextRelease ==
    \/ \E h \in Holders :
          \/ CreateAlloc(h, AnyRelease)
          \/ CreateStart(h, AnyRelease)
          \/ CreateReturn(h)
          \/ ReleaseCall(h, AnyRelease)
          \/ ReleaseRead(h)
          \/ ReleaseCas(h)
    \/ \E s \in Streams : StreamStep(s)

SpecRelease == Init /\ [][NextRelease]_vars

\* create, free and cancel, called from threads and from tasks
NextContext ==
    \/ \E h \in Holders :
          \/ CreateAlloc(h, AnyContext)
          \/ CreateStart(h, AnyContext)
          \/ CreateReturn(h)
          \/ FreeCall(h, AnyContext)
          \/ FreeWait(h)
          \/ FreeDealloc(h)
          \/ ABT_task_cancel(h, AnyContext)
    \/ \E s \in Streams : StreamStep(s)

SpecContext == Init /\ [][NextContext]_vars

\* concurrent creates of several tasks, and the streams that execute them
NextCreate ==
    \/ \E h \in Holders :
          \/ CreateAlloc(h, Creators)
          \/ CreateStart(h, Creators)
          \/ CreateReturn(h)
    \/ \E s \in Streams : StreamStep(s)

SpecCreate == Init /\ [][NextCreate]_vars

\* creates whose allocation, mutex, registration or stream start may fail
NextFailing ==
    \/ \E h \in Holders :
          \/ CreateAlloc(h, Failing)
          \/ CreateStart(h, Failing)
          \/ CreateReturn(h)
    \/ \E s \in Streams : StreamStep(s)

SpecFailing == Init /\ [][NextFailing]_vars

\* create, cancel, and free by the holder of the creator's reference, with
\* streams that keep taking steps and callers that keep running their free
NextFree ==
    \/ \E h \in Holders :
          \/ CreateAlloc(h, Owned)
          \/ CreateStart(h, Owned)
          \/ CreateReturn(h)
          \/ FreeCall(h, Owned)
          \/ FreeWait(h)
          \/ FreeDealloc(h)
          \/ ABT_task_cancel(h, Owned)
    \/ \E s \in Streams : StreamStep(s)

Fairness ==
    /\ \A s \in Streams : WF_vars(StreamStep(s))
    /\ \A h \in Holders : WF_vars(FreeWait(h)) /\ WF_vars(FreeDealloc(h))

SpecFree == Init /\ [][NextFree]_vars /\ Fairness

\* create, set_name and get_name, with name allocations that may fail
NextName ==
    \/ \E h \in Holders :
          \/ CreateAlloc(h, Naming)
          \/ CreateStart(h, Naming)
          \/ CreateReturn(h)
          \/ SetNameLock(h, Naming)
          \/ SetNameFree(h)
          \/ SetNameAlloc(h, Naming)
          \/ SetNameCopy(h)
          \/ ABT_task_get_name(h, Naming)
    \/ \E s \in Streams : StreamStep(s)

SpecName == Init /\ [][NextName]_vars

\* ------------------------------------------------------------- the claims

RECURSIVE SumHeld(_, _)
SumHeld(H, t) ==
    IF H = {} THEN 0
    ELSE LET h == CHOOSE k \in H : TRUE IN held[h][t] + SumHeld(H \ {h}, t)

Max(a, b) == IF a >= b THEN a ELSE b

InSomePool(t) ==
    \/ InPool(gpool, t)
    \/ \E s \in Streams : InPool(sched[s], t) \/ InPool(deads[s], t)

\* the step frees the object at address t
Deallocates(t) == Live(t) /\ tasks'[t].alloc = "freed"

\* C1: ABT_task_free gets past its wait loop only on a task whose state is
\* TERMINATED, and every object that has been released, by ABT_task_free or
\* by the completion path, was in state TERMINATED when it was released.
C1_FreeOnlyTerminated ==
    /\ \A h \in Holders :
          (pc[h] = "free_dealloc" /\ Live(loc[h].task))
              => tasks[loc[h].task].state = TERMINATED
    /\ \A t \in Tasks : Freed(t) => tasks[t].state = TERMINATED

\* an object released by ABT_task_free (the completion path releases only at
\* refcount 0) while its creator's reference was still counted
C1_Witness ==
    \E t \in Tasks : Freed(t) /\ tasks[t].refcount > 0
                      /\ tasks[t].unit_freed_by = GENERIC

\* C2: no step deallocates a task while a holder other than the one taking
\* the step holds a reference to it.
C2_NeverFreedWhileReferenced ==
    [][\A t \in Tasks :
         Deallocates(t) =>
             \A k \in Holders : pc'[k] = pc[k] => held[k][t] <= 0]_vars

\* C3: whatever number of release calls has returned, refcount is the initial
\* count minus that number, or 0 when the number is larger; it never wraps,
\* every call returns success, and a call that finds refcount 0 changes
\* neither the task nor any pool.
C3_ReleaseStopsAtZero ==
    /\ [](\A t \in Tasks :
            Live(t) => /\ tasks[t].refcount # U32_WRAPPED
                       /\ tasks[t].refcount = Max(0, SumHeld(Holders, t)))
    /\ [](\A h \in Holders : ret[h] = ABT_SUCCESS)
    /\ [][\A h \in Holders, t \in Tasks :
            (held'[h][t] < held[h][t] /\ tasks[t].refcount = 0)
                => UNCHANGED <<tasks, pools, streams>>]_vars

\* more release calls have returned than references were ever counted
C3_Witness ==
    \E t \in Tasks : Live(t) /\ SumHeld(Holders, t) < 0 /\ tasks[t].refcount = 0

\* C4: when every release finds a reference to drop, refcount is the initial
\* count plus the retains minus the releases that have returned.
C4_NoLostUpdate ==
    \A t \in Tasks : Live(t) => tasks[t].refcount = SumHeld(Holders, t)

\* the creator has released, another holder has retained
C4_Witness ==
    \E t \in Tasks, h \in Holders, k \in Holders :
        /\ Live(t) /\ newtask[h] = <<t>>
        /\ held[h][t] = 0 /\ held[k][t] = 1 /\ tasks[t].refcount = 1

StateEdges == {<<CREATED, RUNNING>>, <<DELAYED, RUNNING>>,
               <<RUNNING, COMPLETED>>, <<COMPLETED, TERMINATED>>}

\* C5: a task's state changes only along CREATED->RUNNING, DELAYED->RUNNING,
\* RUNNING->COMPLETED and COMPLETED->TERMINATED, only in a step of the stream
\* that executes it, and a new task starts in CREATED or DELAYED.
C5_StateMonotonic ==
    [][\A t \in Tasks :
         /\ (tasks[t].alloc = "none" /\ tasks'[t].alloc # "none")
                => tasks'[t].state \in {CREATED, DELAYED}
         /\ (tasks[t].alloc # "none" /\ tasks'[t].state # tasks[t].state)
                => /\ <<tasks[t].state, tasks'[t].state>> \in StateEdges
                   /\ pc' = pc
                   /\ \E s \in Streams : cur[s] = t \/ cur'[s] = t]_vars

\* a task that went through all its states while a cancel and a retain
\* were made on it
C5_Witness ==
    \E t \in Tasks : /\ Live(t) /\ tasks[t].state = TERMINATED
                     /\ ABTI_TASK_REQ_CANCEL \in tasks[t].request
                     /\ tasks[t].refcount > 1

\* create has pushed the unit: the step CreateAlloc of holder h
Pushes(h) == pc[h] = "idle" /\ pc'[h] = "create_start"
\* create returns success: the step CreateReturn of holder h
Returns(h) == pc[h] = "create_ret" /\ pc'[h] = "idle"

\* C6 as stated: refcount starts at 1 with an output handle and at 0 without,
\* and the unit of a task created without a stream is in the global pool at
\* the moment create returns.
C6_InGlobalPoolAtReturn ==
    [][\A h \in Holders :
         /\ Pushes(h) => tasks'[loc'[h].task].refcount
                            = (IF loc'[h].want THEN 1 ELSE 0)
         /\ (Returns(h) /\ loc[h].stream = ABT_STREAM_NULL)
                => InPool(gpool', loc[h].task)]_vars

\* C6 amended: refcount starts at 1 with an output handle and at 0 without;
\* the unit of a task created without a stream is in the global pool when
\* create has pushed it, and when create returns it is still there unless a
\* stream has claimed the task.
C6_PushedToGlobalPool ==
    [][\A h \in Holders :
         /\ Pushes(h) =>
              /\ tasks'[loc'[h].task].refcount = (IF loc'[h].want THEN 1 ELSE 0)
              /\ loc'[h].stream = ABT_STREAM_NULL => InPool(gpool', loc'[h].task)
         /\ (Returns(h) /\ loc[h].stream = ABT_STREAM_NULL)
                => \/ InPool(gpool', loc[h].task)
                   \/ tasks'[loc[h].task].p_stream # ABT_STREAM_NULL]_vars

\* create without a stream has returned a handle; the task is in the global pool
C6_Witness ==
    \E t \in Tasks, h \in Holders :
        /\ pc[h] = "idle" /\ newtask[h] = <<t>> /\ Live(t)
        /\ InPool(gpool, t) /\ tasks[t].refcount = 1
        /\ tasks[t].p_stream = ABT_STREAM_NULL

\* C7: a task in CREATED has no stream and is in the global pool, a task in
\* DELAYED is in the pool of the scheduler of its stream, and the pools hold
\* nothing else: what a stream pops is in CREATED or in DELAYED.
C7_InitialStateByBinding ==
    \A t \in Tasks :
        /\ InPool(gpool, t)
             => Live(t) /\ tasks[t].state = CREATED
                        /\ tasks[t].p_stream = ABT_STREAM_NULL
        /\ \A s \in Streams :
             InPool(sched[s], t)
                 => Live(t) /\ tasks[t].state = DELAYED /\ tasks[t].p_stream = s
        /\ (Live(t) /\ tasks[t].state = CREATED)
             => InPool(gpool, t) /\ tasks[t].p_stream = ABT_STREAM_NULL
        /\ (Live(t) /\ tasks[t].state = DELAYED)
             => /\ tasks[t].p_stream \in Streams
                /\ InPool(sched[tasks[t].p_stream], t)

\* a task created with a target stream, before that stream pops it
C7_Witness ==
    \E t \in Tasks, s \in Streams :
        InPool(sched[s], t) /\ tasks[t].state = DELAYED /\ tasks[t].p_stream = s

\* C8: a task with refcount 0 and state TERMINATED has been released and is
\* in no pool.
C8_ZeroTerminatedIsReleased ==
    \A t \in Tasks :
        (tasks[t].alloc # "none" /\ tasks[t].refcount = 0
            /\ tasks[t].state = TERMINATED)
            => Freed(t) /\ ~InSomePool(t)

ReleasePcs == {"rel_read", "rel_cas"}

\* the step is one of holder h inside ABT_task_release
ReleaseStep(h) ==
    \/ pc[h] \in ReleasePcs /\ pc'[h] # pc[h]
    \/ pc'[h] \in ReleasePcs /\ pc'[h] # pc[h]
    \/ \E t \in Tasks : held'[h][t] < held[h][t]

C10_CancelMonotonic ==
    [][\A t \in Tasks :
         (tasks[t].alloc # "none"
             /\ ABTI_TASK_REQ_CANCEL \in tasks[t].request)
            => ABTI_TASK_REQ_CANCEL \in tasks'[t].request]_vars

\* the bit set before the task ran is still set after it terminated
C10_Witness ==
    \E t \in Tasks : /\ tasks[t].state = TERMINATED
                     /\ ABTI_TASK_REQ_CANCEL \in tasks[t].request

\* C11: a step of ABT_task_cancel sets the cancel bit of its task and changes
\* nothing else of any task, no pool and no stream, and the call returns in
\* that step; a task whose cancel bit is set changes state only along the
\* edges of the lifecycle, so it reaches TERMINATED from COMPLETED only.
C11_CancelOnlySetsBit ==
    [][/\ \A h \in Holders :
            ABT_task_cancel(h, WellFormed)
               => /\ UNCHANGED <<pools, streams>>
                  /\ pc'[h] = "idle" /\ ret'[h] = ABT_SUCCESS
                  /\ \A t \in Tasks :
                       \/ tasks'[t] = tasks[t]
                       \/ tasks'[t] = [tasks[t] EXCEPT !.request =
                                         @ \cup {ABTI_TASK_REQ_CANCEL}]
       /\ \A t \in Tasks :
            (Live(t) /\ ABTI_TASK_REQ_CANCEL \in tasks[t].request
                /\ tasks'[t].state # tasks[t].state)
               => <<tasks[t].state, tasks'[t].state>> \in StateEdges]_vars

\* a task cancelled before a stream has popped it: still in its pool, in its
\* initial state
C11_Witness ==
    \E t \in Tasks :
        /\ Live(t) /\ tasks[t].state \in {CREATED, DELAYED}
        /\ ABTI_TASK_REQ_CANCEL \in tasks[t].request
        /\ InSomePool(t)

\* C12: a call of ABT_task_free or of ABT_task_cancel made by a task returns
\* ABT_ERR_TASK in its first step and changes no task, no pool and no stream;
\* free does not enter its wait loop and the caller keeps its handle.
C12_TaskContextRejected ==
    [][\A h \in Holders :
         (FreeCall(h, InTask) \/ ABT_task_cancel(h, InTask))
            => /\ ret'[h] = ABT_ERR_TASK
               /\ pc'[h] = "idle"
               /\ UNCHANGED <<tasks, pools, streams, hnd, newtask, fault>>]_vars

\* a call from a task was rejected while the task it named had not terminated,
\* where a free from a thread would have waited
C12_Witness ==
    \E h \in Holders, t \in Tasks :
        /\ pc[h] = "idle" /\ ret[h] = ABT_ERR_TASK
        /\ t \in hnd[h] /\ Live(t) /\ tasks[t].state # TERMINATED
        /\ tasks[t].request = {}

\* C13: no two task objects have the same id; the id a create assigns is
\* greater than the id of every task whose create assigned its id before, so
\* greater than the id of every task whose create has returned; and the id of
\* a task never changes.
C13_IdsUniqueIncreasing ==
    /\ [](\A t \in Tasks, u \in Tasks :
            (t # u /\ tasks[t].alloc # "none" /\ tasks[u].alloc # "none")
               => tasks[t].id # tasks[u].id)
    /\ [][\A t \in Tasks :
            /\ (tasks[t].alloc = "none" /\ tasks'[t].alloc # "none")
                  => \A u \in Tasks :
                        tasks[u].alloc # "none" => tasks'[t].id > tasks[u].id
            /\ tasks[t].alloc # "none" => tasks'[t].id = tasks[t].id]_vars

\* two creates in progress at once, by two callers, each with its task
C13_Witness ==
    \E h \in Holders, k \in Holders :
        /\ h # k /\ pc[h] = "create_start" /\ pc[k] = "create_start"
        /\ loc[h].task # loc[k].task
        /\ tasks[loc[h].task].id # tasks[loc[k].task].id

\* the number of places of a pool that hold the unit of task t
CountIn(pool, t) == Cardinality({i \in 1..Len(pool) : pool[i] = t})

RECURSIVE SumOver(_, _, _)
SumOver(S, f, t) ==
    IF S = {} THEN 0
    ELSE LET s == CHOOSE x \in S : TRUE
         IN CountIn(f[s], t) + SumOver(S \ {s}, f, t)

\* the number of pool places, over all pools, that hold the unit of task t
Locations(t) ==
    CountIn(gpool, t) + SumOver(Streams, sched, t) + SumOver(Streams, deads, t)

\* C14: the unit of a task is in at most one place: in the global pool, or in
\* the pool of one scheduler, or in the deads pool of one stream, and there once.
C14_OnePoolLocation == \A t \in Tasks : Locations(t) <= 1

\* a unit that was pushed to a scheduler's pool by create, was popped, and now
\* is parked in the deads pool of the stream, while a free of the task waits
\* to remove it
C14_Witness ==
    \E t \in Tasks, s \in Streams, h \in Holders :
        /\ Live(t) /\ tasks[t].unit = s /\ InPool(deads[s], t)
        /\ Locations(t) = 1
        /\ pc[h] = "free_wait" /\ loc[h].task = t

\* the step is the return of a create of holder h that has failed
FailsCreate(h) ==
    /\ CreateAlloc(h, Failing) \/ CreateStart(h, Failing)
    /\ pc'[h] = "idle"

\* C15: a create that fails returns an error, leaves the null handle in the
\* caller's newtask when one was passed, and leaves behind neither a mutex
\* nor a unit in a pool.
C15_FailedCreateLeavesNothing ==
    [][\A h \in Holders :
         FailsCreate(h) =>
            /\ ret'[h] # ABT_SUCCESS
            /\ LET t == IF pc[h] = "idle" THEN NextAddr ELSE loc[h].task IN
                 IF tasks'[t].alloc = "none"
                 THEN newtask'[h] \in {<<ABT_TASK_NULL>>, newtask[h]}
                 ELSE /\ tasks'[t].refcount > 0
                            => newtask'[h] = <<ABT_TASK_NULL>>
                      /\ tasks'[t].mutex # "live"
                      /\ ~InSomePool(t)']_vars

\* holder h is in the wait loop of ABT_task_free and its task has not terminated
Waiting(h) ==
    /\ pc[h] = "free_wait"
    /\ Live(loc[h].task) /\ tasks[loc[h].task].state # TERMINATED

Stranding == NumActive <= 1 /\ NumCreated > 0

\* C17: when a create with a target stream returns success, that stream has
\* been started; when a create without a target stream returns success, it
\* is not the case that at most one stream is active while a stream waits to
\* be started; and the step of create that follows the push starts the
\* target stream when it was never started, and starts a waiting stream when
\* no target was given and at most one stream is active.
C17_CreateStartsStream ==
    [][\A h \in Holders :
         /\ (Returns(h) /\ loc[h].stream \in Streams)
               => sstate'[loc[h].stream] # "CREATED"
         /\ (Returns(h) /\ loc[h].stream = ABT_STREAM_NULL) => ~Stranding'
         /\ (pc[h] = "create_start" /\ pc'[h] # pc[h]
               /\ IF loc[h].stream = ABT_STREAM_NULL
                  THEN Stranding
                  ELSE sstate[loc[h].stream] = "CREATED")
               => \E s \in Streams :
                     /\ loc[h].stream \in {ABT_STREAM_NULL, s}
                     /\ sstate[s] = "CREATED" /\ sstate'[s] = "RUNNING"
                     /\ InSomePool(loc[h].task)
                           \/ tasks[loc[h].task].state # InitialState(loc[h].stream)]_vars

\* a create without a target stream has returned success; its task is in the
\* global pool and the stream that waited has been started
C17_Witness ==
    \E h \in Holders, t \in Tasks :
        /\ pc[h] = "idle" /\ ret[h] = ABT_SUCCESS /\ newtask[h] = <<t>>
        /\ tasks[t].unit = GENERIC /\ InPool(gpool, t)
        /\ \A s \in Streams : sstate[s] = "RUNNING"

\* C18: create builds the unit with the generic variant when no stream is
\* given and with the variant of the stream's scheduler when one is given,
\* and whatever step deallocates a task destroys its unit with the variant
\* that built it.
C18_UnitFreedByItsFactory ==
    [][/\ \A h \in Holders :
            Pushes(h) => tasks'[loc'[h].task].unit =
                            (IF loc'[h].stream = ABT_STREAM_NULL
                             THEN GENERIC ELSE loc'[h].stream)
       /\ \A t \in Tasks :
            Deallocates(t) => tasks'[t].unit_freed_by = tasks[t].unit]_vars

NamePcs == {"name_free", "name_alloc", "name_copy"}

\* C19: while a set_name holds the mutex, and when it returns, p_name is the
\* name the task had when the call took the lock or the name the call installs:
\* the new name after a success, the previous one after a failure; and the
\* call does not return with the mutex locked.
C19_NameAlwaysComplete ==
    /\ [](\A h \in Holders :
            (pc[h] \in NamePcs /\ Live(loc[h].task))
               => /\ tasks[loc[h].task].mutex_owner = h
                  /\ tasks[loc[h].task].p_name \in {loc[h].prev, loc[h].name})
    /\ [][\A h \in Holders :
            (pc[h] \in NamePcs /\ pc'[h] = "idle" /\ Live(loc[h].task))
               => /\ tasks'[loc[h].task].mutex_owner = UNLOCKED
                  /\ tasks'[loc[h].task].p_name =
                        (IF ret'[h] = ABT_SUCCESS
                         THEN loc[h].name ELSE loc[h].prev)]_vars

FreePcs == {"free_wait", "free_dealloc"}

\* C20: a call of ABT_task_free or of ABT_task_release that is in progress
\* works on an object that is still allocated, so no object is deallocated
\* twice and none is read or written after its deallocation; and the unit of
\* a deallocated object is in no pool.
C20_FreedOnceNeverTouched ==
    /\ \A h \in Holders :
          pc[h] \in FreePcs \cup ReleasePcs => Live(loc[h].task)
    /\ \A t \in Tasks : Freed(t) => ~InSomePool(t)
====
